---- MODULE Spec2Model ----
(***************************************************************************)
(* A model of the log pattern learner (src/python/pattern_learning.py) and *)
(* of the anomaly-detector ensemble (src/python/ml_models.py).             *)
(*                                                                         *)
(* Strings are opaque to TLC, so the library functions that look inside a  *)
(* string (str.strip, json.loads, re.search, len) are tables over a fixed  *)
(* set of sample lines; every row is the value Python computes for that    *)
(* sample.                                                                 *)
(***************************************************************************)
EXTENDS Integers, Sequences, FiniteSets, TLC

VARIABLES
    pc,         \* parse_log_files: "for_file", "for_line" or "returned"
    sources,    \* the sources taken from log_files so far, with the lines each has yielded
    line_num,   \* enumerate(f)'s next index in the open source
    all_logs,   \* parse_log_files' all_logs list
    tried,      \* the parsers attempted on the line read last, in order
    stderr,     \* the sources reported on stderr
    SKLEARN_AVAILABLE,  \* ml_models: whether the sklearn imports succeeded
    is_trained, \* LogAnomalyDetector.is_trained
    scaler_fit, \* per detector, the train call whose batch its scaler was fitted on (0: none)
    model_fit,  \* per detector, the train call whose batch the model was fitted on (0: none)
    calls,      \* train and predict calls made on the detector
    trained_ok, \* train calls that returned status success
    train_failed, \* train calls that returned an error
    last,       \* what the last train or predict call returned
    raised,     \* where the last call's try block raised, if it did
    trained_by, \* the latest train call that returned status success (0: none)
    feature_names, \* LogAnomalyDetector.feature_names
    frame,      \* learn_patterns: the frame it was given, with the columns it added
    fitted,     \* the learner's estimators that have been fitted
    learned,    \* what learn_patterns returned, or that it raised
    conf_in,    \* calculate_confidence: len(df) and len(patterns) of the call
    conf_out,   \* its return value, in units of 1/ConfidenceUnits (-1: not called)
    main_pc,    \* the entry point: "start", "parsing" or "exited"
    entry,      \* which script's main() runs
    cause,      \* why the run failed, "none" if it did not
    stdout,     \* what main() printed
    exit_status, \* the process exit status
    now,        \* the wall clock, in hours since ClockStart
    extracted   \* feature extraction: the extractor, the record, the vectors made of it

parseVars == <<pc, sources, line_num, all_logs, tried, stderr>>

detectorVars == <<SKLEARN_AVAILABLE, is_trained, scaler_fit, model_fit, calls,
                  trained_ok, train_failed, last, raised, trained_by,
                  feature_names>>

learnVars == <<frame, fitted, learned>>

confVars == <<conf_in, conf_out>>

mainVars == <<main_pc, entry, cause, stdout, exit_status>>

featVars == <<now, extracted>>

vars == <<parseVars, detectorVars, learnVars, confVars, mainVars, featVars>>

----------------------------------------------------------------------------
(* Bounds of the model. *)

\* sources in one log_files list
MaxFiles == 2
\* lines yielded by all sources of one call together
MaxLines == 2
\* train and predict calls on one detector
MaxCalls == 3
\* log entries in one train or predict batch
MaxEntries == 2
\* records in one frame given to learn_patterns
MaxBatch == 6
\* records in one of the long frames given to learn_patterns
MaxLargeBatch == 12
\* len(df) and len(patterns) given to calculate_confidence
MaxConfBatch == 1001
MaxConfPatterns == 21
\* lines yielded by all sources of one run of the script
MaxMainLines == 5
\* hours the wall clock advances while one record is being re-extracted
MaxClock == 3
\* feature extractions made of one record
MaxExtractions == 2

----------------------------------------------------------------------------
(* Sample lines. *)

LineBlank == "   "
LineRaw == "  ???  "
LineJsonObject == "{\"message\": \"login failed for user admin\", \"level\": \"ERROR\"}"
LineJsonSyslog == "{\"message\": \"Jan 12 10:00:00 h p: x\"}"
LineJsonNumber == "42"
LineJsonString == "\"Jan 12 10:00:00 web01 sshd: login failed\""
LineJsonList == "[1]"
LineJsonNull == "null"
LineSyslog == "Jan 12 10:00:00 web01 sshd: login failed"
LineWeb == "10.0.0.1 - - [x] \"GET /a HTTP/1.1\" 200 12"
LineGeneric == "2024-01-01 10:00:00 ERROR db timeout"
LineSyslogGeneric == "Jan 12 10:00:00 web01 app: 2024-01-01 10:00:00 ERROR boom"
LineWebGeneric == "2024-01-01 10:00:00 INFO 10.0.0.1 \"GET /a HTTP/1.1\" 200 12"
LineSyslogWeb == "Jan 12 10:00:00 h p: 10.0.0.1 \"GET /a HTTP/1.1\" 200 12"

Lines ==
    { LineBlank, LineRaw, LineJsonObject, LineJsonSyslog, LineJsonNumber,
      LineJsonString, LineJsonList, LineJsonNull, LineSyslog, LineWeb,
      LineGeneric, LineSyslogGeneric, LineWebGeneric, LineSyslogWeb }

\* str.strip(): the samples carry no newline; two of them carry blanks.
strip(line) ==
    CASE line = LineBlank -> ""
      [] line = LineRaw -> "???"
      [] OTHER -> line

\* json.loads(line): the type of the decoded value, "invalid" when it raises
\* json.JSONDecodeError.
json_kind(line) ==
    CASE line = LineJsonObject -> "object"
      [] line = LineJsonSyslog -> "object"
      [] line = LineJsonNumber -> "number"
      [] line = LineJsonString -> "string"
      [] line = LineJsonList -> "list"
      [] line = LineJsonNull -> "null"
      [] OTHER -> "invalid"

\* json.loads(line) for the object samples.
json_loads(line) ==
    CASE line = LineJsonObject ->
            [message |-> "login failed for user admin", level |-> "ERROR"]
      [] line = LineJsonSyslog -> [message |-> "Jan 12 10:00:00 h p: x"]

patterns_generic_first == <<"generic", "syslog", "web">>

\* The three expressions of parse_text_log's patterns list, in its order.
patterns == <<"syslog", "web", "generic">>

\* re.search(pattern, line) is not None
re_search(pattern, line) ==
    CASE pattern = "syslog" ->
            line \in {LineJsonSyslog, LineJsonString, LineSyslog,
                      LineSyslogGeneric, LineSyslogWeb}
      [] pattern = "web" -> line \in {LineWeb, LineWebGeneric, LineSyslogWeb}
      [] pattern = "generic" ->
            line \in {LineGeneric, LineSyslogGeneric, LineWebGeneric}

\* re.search(pattern, line).groupdict(), where the pattern matches
groupdict(pattern, line) ==
    CASE pattern = "syslog" /\ line = LineSyslog ->
            [timestamp |-> "Jan 12 10:00:00", host |-> "web01",
             process |-> "sshd", message |-> "login failed"]
      [] pattern = "syslog" /\ line = LineSyslogGeneric ->
            [timestamp |-> "Jan 12 10:00:00", host |-> "web01",
             process |-> "app", message |-> "2024-01-01 10:00:00 ERROR boom"]
      [] pattern = "syslog" /\ line = LineSyslogWeb ->
            [timestamp |-> "Jan 12 10:00:00", host |-> "h", process |-> "p",
             message |-> "10.0.0.1 \"GET /a HTTP/1.1\" 200 12"]
      [] pattern = "syslog" /\ line = LineJsonSyslog ->
            [timestamp |-> "Jan 12 10:00:00", host |-> "h", process |-> "p",
             message |-> "x\"}"]
      [] pattern = "syslog" /\ line = LineJsonString ->
            [timestamp |-> "Jan 12 10:00:00", host |-> "web01",
             process |-> "sshd", message |-> "login failed\""]
      [] pattern = "web" /\ line \in {LineWeb, LineWebGeneric, LineSyslogWeb} ->
            [ip |-> "10.0.0.1", method |-> "GET", path |-> "/a",
             status |-> "200", size |-> "12"]
      [] pattern = "generic" /\ line = LineGeneric ->
            [timestamp |-> "2024-01-01 10:00:00", level |-> "ERROR",
             message |-> " db timeout"]
      [] pattern = "generic" /\ line = LineSyslogGeneric ->
            [timestamp |-> "2024-01-01 10:00:00", level |-> "ERROR",
             message |-> " boom"]
      [] pattern = "generic" /\ line = LineWebGeneric ->
            [timestamp |-> "2024-01-01 10:00:00", level |-> "INFO",
             message |-> " 10.0.0.1 \"GET /a HTTP/1.1\" 200 12"]

----------------------------------------------------------------------------
(* What extract_features reads off a message string. *)

\* len(message)
str_len(message) ==
    CASE message = "" -> 0
      [] message = "???" -> 3
      [] message = "login failed for user admin" -> 27
      [] message = "Jan 12 10:00:00 h p: x" -> 22
      [] message = "login failed" -> 12
      [] message = "2024-01-01 10:00:00 ERROR boom" -> 30
      [] message = "10.0.0.1 \"GET /a HTTP/1.1\" 200 12" -> 33
      [] message = " db timeout" -> 11
      [] message = " boom" -> 5
      [] message = " 10.0.0.1 \"GET /a HTTP/1.1\" 200 12" -> 34

\* bool(re.search(r'\d+\.\d+\.\d+\.\d+', message))
has_ip(message) ==
    message \in { "10.0.0.1 \"GET /a HTTP/1.1\" 200 12",
                  " 10.0.0.1 \"GET /a HTTP/1.1\" 200 12" }

\* bool(re.search(r'error|fail|exception|timeout', message, re.IGNORECASE))
has_error_keywords(message) ==
    message \in { "login failed for user admin", "login failed",
                  "2024-01-01 10:00:00 ERROR boom", " db timeout" }

\* bool(re.search(r'login|auth|password|token', message, re.IGNORECASE))
has_auth_keywords(message) ==
    message \in { "login failed for user admin", "login failed" }

----------------------------------------------------------------------------
(* LogPatternLearner.parse_text_log and extract_features. *)

\* dict.get(key, default)
Get(d, key, default) == IF key \in DOMAIN d THEN d[key] ELSE default

\* The for loop of parse_text_log from the i-th pattern on: the groupdict of
\* the first pattern that matches, else the whole line as a raw message.
\* "tried" lists the patterns searched.
RECURSIVE parse_text_log_from(_, _, _)
parse_text_log_from(i, line, searched) ==
    IF i > Len(patterns)
    THEN [entry |-> [message |-> line, raw |-> TRUE], tried |-> searched]
    ELSE IF re_search(patterns[i], line)
         THEN [entry |-> groupdict(patterns[i], line),
               tried |-> Append(searched, patterns[i])]
         ELSE parse_text_log_from(i + 1, line, Append(searched, patterns[i]))

parse_text_log(line) == parse_text_log_from(1, line, <<>>)

extract_features(log_entry, source_file, line_number) ==
    LET message == Get(log_entry, "message", "")
    IN  [ source_file |-> source_file,
          line_number |-> line_number,
          message |-> message,
          level |-> Get(log_entry, "level", "INFO"),
          timestamp |-> Get(log_entry, "timestamp", ""),
          host |-> Get(log_entry, "host", ""),
          component |-> Get(log_entry, "component", ""),
          ip_address |-> Get(log_entry, "ip", ""),
          method |-> Get(log_entry, "method", ""),
          status_code |-> Get(log_entry, "status", ""),
          message_length |-> str_len(message),
          has_ip |-> has_ip(message),
          has_error_keywords |-> has_error_keywords(message),
          has_auth_keywords |-> has_auth_keywords(message) ]

\* One pass of the body of "for line_num, line in enumerate(f)": the new
\* all_logs, whether an exception left the body, and the parsers attempted.
\* extract_features calls log_entry.get, which only a dict has: any other
\* decoded JSON value raises AttributeError, which the inner except clause
\* (json.JSONDecodeError) does not catch.
ProcessLine(logs, source_file, n, raw_line) ==
    LET line == strip(raw_line)
    IN  IF line = ""
        THEN [logs |-> logs, raised |-> FALSE, tried |-> <<>>]
        ELSE IF json_kind(line) # "invalid"
        THEN IF json_kind(line) = "object"
             THEN [logs |-> Append(logs, extract_features(json_loads(line), source_file, n)),
                   raised |-> FALSE, tried |-> <<"json">>]
             ELSE [logs |-> logs, raised |-> TRUE, tried |-> <<"json">>]
        ELSE LET r == parse_text_log(line)
             IN  IF DOMAIN r.entry # {}
                 THEN [logs |-> Append(logs, extract_features(r.entry, source_file, n)),
                       raised |-> FALSE, tried |-> <<"json">> \o r.tried]
                 ELSE [logs |-> logs, raised |-> FALSE, tried |-> <<"json">> \o r.tried]

----------------------------------------------------------------------------
(* LogPatternLearner.parse_log_files, one action per step of its loops.    *)
(* A source's history records what the environment did: whether the file   *)
(* exists, whether opening or reading it raised, and the lines it yielded. *)

LinesRead == LET RECURSIVE Sum(_)
                 Sum(i) == IF i = 0 THEN 0 ELSE Len(sources[i].lines) + Sum(i - 1)
             IN  Sum(Len(sources))

ParseInit ==
    /\ pc = "for_file"
    /\ sources = <<>>
    /\ line_num = 0
    /\ all_logs = <<>>
    /\ tried = <<>>
    /\ stderr = <<>>

\* "for log_file in log_files" takes a source that does not exist: continue.
SkipMissing ==
    /\ pc = "for_file"
    /\ Len(sources) < MaxFiles
    /\ sources' = Append(sources, [exists |-> FALSE, io_error |-> FALSE,
                                   lines |-> <<>>, status |-> "missing"])
    /\ UNCHANGED <<pc, line_num, all_logs, tried, stderr>>
    /\ UNCHANGED <<detectorVars, learnVars, confVars, featVars, mainVars>>

\* ... takes a source that exists; open() either raises (caught by the outer
\* except: reported and skipped) or the line loop starts.
OpenSource ==
    /\ pc = "for_file"
    /\ Len(sources) < MaxFiles
    /\ \E opens \in BOOLEAN :
          IF opens
          THEN /\ sources' = Append(sources, [exists |-> TRUE, io_error |-> FALSE,
                                              lines |-> <<>>, status |-> "open"])
               /\ pc' = "for_line"
               /\ line_num' = 0
               /\ UNCHANGED stderr
          ELSE /\ sources' = Append(sources, [exists |-> TRUE, io_error |-> TRUE,
                                              lines |-> <<>>, status |-> "failed"])
               /\ stderr' = Append(stderr, Len(sources) + 1)
               /\ UNCHANGED <<pc, line_num>>
    /\ UNCHANGED <<all_logs, tried>>
    /\ UNCHANGED <<detectorVars, learnVars, confVars, featVars, mainVars>>

\* The open source yields one more line, drawn from the given samples, and
\* the loop body runs on it.
ReadLineFrom(samples, most) ==
    /\ pc = "for_line"
    /\ LinesRead < most
    /\ UNCHANGED <<detectorVars, learnVars, confVars, featVars, mainVars>>
    /\ \E raw_line \in samples :
          LET f == Len(sources)
              r == ProcessLine(all_logs, f, line_num, raw_line)
          IN  /\ all_logs' = r.logs
              /\ tried' = r.tried
              /\ IF r.raised
                 THEN /\ sources' = [sources EXCEPT ![f].lines = Append(@, raw_line),
                                                    ![f].status = "failed"]
                      /\ stderr' = Append(stderr, f)
                      /\ pc' = "for_file"
                      /\ UNCHANGED line_num
                 ELSE /\ sources' = [sources EXCEPT ![f].lines = Append(@, raw_line)]
                      /\ line_num' = line_num + 1
                      /\ UNCHANGED <<pc, stderr>>

ReadLine == ReadLineFrom(Lines, MaxLines)

\* Reading or decoding the open source raises (OSError, UnicodeDecodeError):
\* the outer except reports the source and goes on to the next one.
ReadError ==
    /\ pc = "for_line"
    /\ LET f == Len(sources)
       IN  /\ sources' = [sources EXCEPT ![f].io_error = TRUE, ![f].status = "failed"]
           /\ stderr' = Append(stderr, f)
    /\ pc' = "for_file"
    /\ UNCHANGED <<line_num, all_logs, tried>>
    /\ UNCHANGED <<detectorVars, learnVars, confVars, featVars, mainVars>>

\* The open source is exhausted.
EndOfFile ==
    /\ pc = "for_line"
    /\ sources' = [sources EXCEPT ![Len(sources)].status = "done"]
    /\ pc' = "for_file"
    /\ UNCHANGED <<line_num, all_logs, tried, stderr>>
    /\ UNCHANGED <<detectorVars, learnVars, confVars, featVars, mainVars>>

\* log_files is exhausted: return pd.DataFrame(all_logs).
ReturnFrame ==
    /\ pc = "for_file"
    /\ pc' = "returned"
    /\ UNCHANGED <<sources, line_num, all_logs, tried, stderr>>
    /\ UNCHANGED <<detectorVars, learnVars, confVars, featVars, mainVars>>

ParseNext ==
    \/ SkipMissing
    \/ OpenSource
    \/ ReadLine
    \/ ReadError
    \/ EndOfFile
    \/ ReturnFrame

----------------------------------------------------------------------------
(* LogAnomalyDetector (ml_models.py): __init__, train and predict.         *)

\* self.models, in the dict's insertion order
ModelNames == <<"isolation_forest", "one_class_svm">>

Models == {ModelNames[d] : d \in DOMAIN ModelNames}

\* self.feature_names once extract_features has set it
FeatureNames ==
    << "hour", "day_of_week", "day", "month", "is_weekend",
       "message_length", "word_count", "error_count", "warning_count",
       "failed_count", "success_count", "has_auth", "has_network",
       "has_database", "log_level", "source_hash", "metadata_count",
       "has_user", "has_ip", "has_error_metadata" >>

\* datetime.now() when the wall clock has advanced t hours from 22:00 of
\* Friday 31 May 2024, as the fields extract_features reads off it.
datetime_now(t) ==
    LET hours == 22 + t
        days == hours \div 24
    IN  [ hour |-> hours % 24,
          day_of_week |-> (4 + days) % 7,
          day |-> IF days = 0 THEN 31 ELSE days,
          month |-> IF days = 0 THEN 5 ELSE 6 ]

\* pd.to_datetime(timestamp) of the sample timestamp, a Monday
to_datetime(timestamp) ==
    CASE timestamp = "2024-01-01 10:00:00" ->
            [hour |-> 10, day_of_week |-> 0, day |-> 1, month |-> 1]

\* len(message.split())
word_count(message) ==
    CASE message = "" -> 0
      [] message = "???" -> 1
      [] message = "login failed for user admin" -> 5
      [] message = "login failed" -> 2
      [] message = " db timeout" -> 2

\* message.count(word)
str_count(message, word) ==
    IF word = "failed" /\ message \in {"login failed for user admin", "login failed"}
    THEN 1 ELSE 0

\* level_map.get(level, 1)
level_map(level) ==
    CASE level = "DEBUG" -> 0
      [] level = "INFO" -> 1
      [] level = "WARN" -> 2
      [] level = "ERROR" -> 3
      [] level = "CRITICAL" -> 4
      [] OTHER -> 1

\* One feature vector of LogAnomalyDetector.extract_features, made when the
\* wall clock stands at t. None of the sample messages holds
\* 'authentication', 'network' or 'database', no sample record names a source
\* (hash('') is 0) and the sample metadata holds neither 'ip' nor 'error'.
feature_vector(log_entry, t) ==
    LET timestamp == IF "timestamp" \in DOMAIN log_entry
                     THEN to_datetime(log_entry.timestamp)
                     ELSE datetime_now(t)
        message == Get(log_entry, "message", "")
        metadata == Get(log_entry, "metadata", <<>>)
    IN  [ hour |-> timestamp.hour,
          day_of_week |-> timestamp.day_of_week,
          day |-> timestamp.day,
          month |-> timestamp.month,
          is_weekend |-> IF timestamp.day_of_week >= 5 THEN 1 ELSE 0,
          message_length |-> str_len(message),
          word_count |-> word_count(message),
          error_count |-> str_count(message, "error"),
          warning_count |-> str_count(message, "warning"),
          failed_count |-> str_count(message, "failed"),
          success_count |-> str_count(message, "success"),
          has_auth |-> 0,
          has_network |-> 0,
          has_database |-> 0,
          log_level |-> level_map(Get(log_entry, "level", "INFO")),
          source_hash |-> 0,
          metadata_count |-> Cardinality(DOMAIN metadata),
          has_user |-> IF "user" \in DOMAIN metadata THEN 1 ELSE 0,
          has_ip |-> 0,
          has_error_metadata |-> 0 ]

\* LogAnomalyDetector.extract_features(log_entries): the rows of the array
detector_extract_features(log_entries, t) ==
    [i \in DOMAIN log_entries |-> feature_vector(log_entries[i], t)]

\* The library calls train makes on each detector, in order, and those of predict.
TrainSteps == <<"scale", "fit", "predict", "score">>
PredictSteps == <<"scale", "predict", "score", "confidence">>

\* A call's failure point: 0 when extract_features raises, k >= 1 when the
\* k-th library call of the loop over the detectors raises, and one past the
\* last call when nothing raises.
NoFailure(steps) == Len(ModelNames) * Len(steps) + 1

\* The step a failure point stands for, and the detector it belongs to.
NotRaised == [step |-> "none", model |-> "none"]

RaisedAt(steps, failure) ==
    IF failure = NoFailure(steps) THEN NotRaised
    ELSE IF failure = 0 THEN [step |-> "extract_features", model |-> "none"]
    ELSE [step |-> steps[((failure - 1) % Len(steps)) + 1],
          model |-> ModelNames[((failure - 1) \div Len(steps)) + 1]]

\* The detectors whose entry of the results dict was written before the
\* failure point: the entry is written after the detector's last step.
Completed(steps, failure) ==
    {ModelNames[d] : d \in {e \in DOMAIN ModelNames : failure > e * Len(steps)}}

\* Whether detector d's step was completed before the failure point.
StepDone(steps, failure, d, step) ==
    \E k \in DOMAIN steps :
        /\ steps[k] = step
        /\ failure > (d - 1) * Len(steps) + k

\* The values a detector's decision_function returns in the model.
ScoreValues == {-1, 0, 1}

\* model.predict's answers for a score: -1 below zero, 1 above; at zero the
\* two detector families differ, so either.
FlagsFor(score) ==
    IF score < 0 THEN {-1} ELSE IF score > 0 THEN {1} ELSE {-1, 1}

\* What a detector can answer for one entry: its score and its flag.
Verdicts == UNION {{[score |-> s, flag |-> f] : f \in FlagsFor(s)} : s \in ScoreValues}

Abs(x) == IF x < 0 THEN -x ELSE x

RECURSIVE SeqMax(_)
SeqMax(s) == IF Len(s) = 1 THEN s[1]
             ELSE LET m == SeqMax(Tail(s)) IN IF s[1] > m THEN s[1] ELSE m

RECURSIVE SeqSum(_)
SeqSum(s) == IF s = <<>> THEN 0 ELSE s[1] + SeqSum(Tail(s))

\* int(np.sum(predictions == -1))
CountFlagged(predictions) ==
    Cardinality({i \in DOMAIN predictions : predictions[i] = -1})

DetectorInitWith(available) ==
    /\ SKLEARN_AVAILABLE = available
    /\ is_trained = FALSE
    /\ scaler_fit = [name \in Models |-> 0]
    /\ model_fit = [name \in Models |-> 0]
    /\ calls = 0
    /\ trained_ok = 0
    /\ train_failed = 0
    /\ last = [op |-> "none", keys |-> {}]
    /\ raised = NotRaised
    /\ trained_by = 0
    /\ feature_names = <<>>

DetectorInit == \E available \in BOOLEAN : DetectorInitWith(available)

\* self.is_trained after a train call that had it at "before": line 172 is
\* reached only when no step of the loop raised.
TrainIsTrainedEarly(before, failure) == TRUE

TrainIsTrained(before, failure) ==
    IF failure = NoFailure(TrainSteps) THEN TRUE ELSE before

\* "except Exception as e: return {'error': str(e)}": the handler of train
\* and of predict. The results dict filled so far is a local that is dropped.
ExceptionResultPartial(op, results) ==
    [op |-> op, outcome |-> "returned", keys |-> {"error", "results"},
     error |-> "exception", results |-> results]

ExceptionResult(op, results) ==
    [op |-> op, outcome |-> "returned", keys |-> {"error"}, error |-> "exception"]

\* What train returns.
TrainResult(n, failure, flagged) ==
    IF failure = NoFailure(TrainSteps)
    THEN [op |-> "train", outcome |-> "returned",
          keys |-> {"status", "models_trained", "results", "feature_count"},
          status |-> "success",
          models_trained |-> ModelNames,
          results |-> [name \in Models |->
                          [anomalies_detected |-> flagged[name],
                           total_samples |-> n]]]
    ELSE ExceptionResult("train",
             [name \in Completed(TrainSteps, failure) |->
                 [anomalies_detected |-> flagged[name], total_samples |-> n]])

\* The ways a train call on a batch of n entries can go: where it fails, if
\* it does, and how many entries each fitted detector flags. An empty batch
\* makes extract_features return a one-dimensional empty array, which the
\* first scaler.fit_transform rejects; on any other batch each step may
\* raise or not.
TrainChoices ==
    { c \in [n : 0..MaxEntries, failure : 0..NoFailure(TrainSteps),
             flagged : [Models -> 0..MaxEntries]] :
        /\ c.n = 0 => c.failure = 1
        /\ \A name \in Models : c.flagged[name] <= c.n
        /\ c.failure # NoFailure(TrainSteps) => c.flagged = [name \in Models |-> 0] }

\* train(log_entries)
Train ==
    /\ last.op = "none"
    /\ calls < MaxCalls
    /\ calls' = calls + 1
    /\ UNCHANGED <<SKLEARN_AVAILABLE, parseVars, learnVars, confVars, featVars, mainVars>>
    /\ IF ~SKLEARN_AVAILABLE
       THEN /\ last' = [op |-> "train", outcome |-> "returned", keys |-> {"error"},
                        error |-> "scikit-learn not available"]
            /\ train_failed' = train_failed + 1
            /\ raised' = NotRaised
            /\ UNCHANGED <<is_trained, scaler_fit, model_fit, trained_ok, trained_by,
                           feature_names>>
       ELSE \E c \in TrainChoices :
            LET n == c.n
                failure == c.failure
                flagged == c.flagged
            IN
               \* scaler.fit_transform: StandardScaler.fit drops the fitted
               \* parameters before it looks at the batch, so a call that
               \* raises leaves the scaler unfitted
               /\ scaler_fit' = [name \in Models |->
                      IF \E d \in DOMAIN ModelNames :
                            ModelNames[d] = name /\ StepDone(TrainSteps, failure, d, "scale")
                      THEN calls + 1
                      ELSE IF RaisedAt(TrainSteps, failure) = [step |-> "scale", model |-> name]
                      THEN 0
                      ELSE scaler_fit[name]]
               /\ model_fit' = [name \in Models |->
                      IF \E d \in DOMAIN ModelNames :
                            ModelNames[d] = name /\ StepDone(TrainSteps, failure, d, "fit")
                      THEN calls + 1 ELSE model_fit[name]]
               /\ is_trained' = TrainIsTrained(is_trained, failure)
               /\ feature_names' = IF failure = 0 THEN feature_names ELSE FeatureNames
               /\ last' = TrainResult(n, failure, flagged)
               /\ raised' = RaisedAt(TrainSteps, failure)
               /\ IF failure = NoFailure(TrainSteps)
                  THEN /\ trained_ok' = trained_ok + 1
                       /\ trained_by' = calls + 1
                       /\ UNCHANGED train_failed
                  ELSE /\ train_failed' = train_failed + 1
                       /\ UNCHANGED <<trained_ok, trained_by>>

\* votes = sum(results[name]['predictions'][i] == -1 for name in self.models)
Votes(predictions, i) ==
    Cardinality({name \in Models : predictions[name][i] = -1})

\* -1 if votes >= len(self.models) / 2 else 1 (true division: compared doubled)
EnsembleVoteStrict(votes) == IF 2 * votes > Cardinality(Models) THEN -1 ELSE 1

EnsembleVote(votes) == IF 2 * votes >= Cardinality(Models) THEN -1 ELSE 1

\* np.abs(anomaly_scores) / np.max(np.abs(anomaly_scores)), each quotient kept
\* as numerator and denominator; 0/0 is numpy's nan (a warning, no exception).
ConfidenceScores(scores) ==
    LET absolute == [i \in DOMAIN scores |-> Abs(scores[i])]
    IN  [i \in DOMAIN scores |-> [num |-> absolute[i], den |-> SeqMax(absolute)]]

\* What predict returns when no step raises.
PredictResult(n, scores, predictions) ==
    LET ensemble_predictions ==
            [i \in 1..n |-> EnsembleVote(Votes(predictions, i))]
    IN  [op |-> "predict", outcome |-> "returned",
         keys |-> {"status", "results", "total_samples"},
         status |-> "success",
         results |-> [name \in Models |->
                         [predictions |-> predictions[name],
                          anomaly_scores |-> scores[name],
                          anomalies_detected |-> CountFlagged(predictions[name]),
                          confidence_scores |-> ConfidenceScores(scores[name])]],
         ensemble |-> [predictions |-> ensemble_predictions,
                       \* np.mean of the detectors' scores: their sum over their number
                       anomaly_scores |-> [i \in 1..n |->
                            [num |-> SeqSum([d \in DOMAIN ModelNames |-> scores[ModelNames[d]][i]]),
                             den |-> Len(ModelNames)]],
                       anomalies_detected |-> CountFlagged(ensemble_predictions)],
         total_samples |-> n]

\* predict(log_entries) on a batch of n entries.
Predict ==
    /\ last.op = "none"
    /\ calls < MaxCalls
    /\ calls' = calls + 1
    /\ UNCHANGED <<SKLEARN_AVAILABLE, is_trained, scaler_fit, model_fit,
                   trained_ok, train_failed, trained_by>>
    /\ UNCHANGED <<parseVars, learnVars, confVars, featVars, mainVars>>
    /\ IF ~SKLEARN_AVAILABLE \/ ~is_trained
       THEN /\ last' = [op |-> "predict", outcome |-> "returned", keys |-> {"error"},
                        error |-> "Models not available or not trained"]
            /\ raised' = NotRaised
            /\ UNCHANGED feature_names
       ELSE \E n \in 0..MaxEntries, failure \in 0..NoFailure(PredictSteps) :
               /\ n = 0 => failure = 1
               /\ feature_names' = IF failure = 0 THEN feature_names ELSE FeatureNames
               \* scaler.transform of an unfitted scaler raises NotFittedError
               /\ \A d \in DOMAIN ModelNames :
                     scaler_fit[ModelNames[d]] = 0 =>
                         failure <= (d - 1) * Len(PredictSteps) + 1
               /\ raised' = RaisedAt(PredictSteps, failure)
               /\ IF failure # NoFailure(PredictSteps)
                  THEN \E verdicts \in [Completed(PredictSteps, failure) -> [1..n -> Verdicts]] :
                          last' = ExceptionResult("predict",
                                     [name \in Completed(PredictSteps, failure) |->
                                         [predictions |-> [i \in 1..n |-> verdicts[name][i].flag],
                                          anomaly_scores |-> [i \in 1..n |-> verdicts[name][i].score]]])
                  ELSE \E verdicts \in [Models -> [1..n -> Verdicts]] :
                          last' = PredictResult(n,
                                     [name \in Models |-> [i \in 1..n |-> verdicts[name][i].score]],
                                     [name \in Models |-> [i \in 1..n |-> verdicts[name][i].flag]])

\* The caller is done with the dict the call returned.
DropResult ==
    /\ last.op # "none"
    /\ last' = [op |-> "none", keys |-> {}]
    /\ raised' = NotRaised
    /\ UNCHANGED <<SKLEARN_AVAILABLE, is_trained, scaler_fit, model_fit, calls,
                   trained_ok, train_failed, trained_by, feature_names>>
    /\ UNCHANGED <<parseVars, learnVars, confVars, featVars, mainVars>>

DetectorNext ==
    \/ Train
    \/ Predict
    \/ DropResult

----------------------------------------------------------------------------
(* LogPatternLearner.learn_patterns and what it calls.  Fractions are kept *)
(* as numerator and denominator.                                            *)

\* KMeans(n_clusters=5)
n_clusters == 5
\* anomaly_logs[:10]
AnomalyLimit == 10
\* head(3) of extract_cluster_patterns
HeadCount == 3
\* len(df) / 1000 and len(patterns) / 10 of calculate_confidence
DataReference == 1000
PatternReference == 10

\* Python's None, which pandas counts as missing
NoneValue == "<None>"

\* pandas isna() of a cell
isna(value) == value = NoneValue

\* Whether TfidfVectorizer (lower-cased words of two or more characters,
\* English stop words dropped) finds a term in the message.
has_terms(message) == message \notin {"", "???"}

Min(a, b) == IF a < b THEN a ELSE b

unique_keep_all(s) == s

\* Series.unique(): the values in order of first appearance
RECURSIVE unique(_)
unique(s) ==
    IF s = <<>> THEN <<>>
    ELSE LET front == unique(SubSeq(s, 1, Len(s) - 1))
             x == s[Len(s)]
         IN  IF \E i \in DOMAIN front : front[i] = x THEN front ELSE Append(front, x)

\* df[mask]: the positions where mask holds, in the frame's order
RECURSIVE where(_)
where(mask) ==
    IF mask = <<>> THEN <<>>
    ELSE LET front == where(SubSeq(mask, 1, Len(mask) - 1))
         IN  IF mask[Len(mask)] THEN Append(front, Len(mask)) ELSE front

\* s.head(k) and s[:k]
head(s, k) == SubSeq(s, 1, Min(k, Len(s)))

\* Series.value_counts().head(3): the counts of the three most frequent
\* values (pandas breaks ties by first appearance; any choice here).
value_counts_head(values) ==
    LET present == {values[i] : i \in DOMAIN values}
        count(v) == Cardinality({i \in DOMAIN values : values[i] = v})
        kept == IF Cardinality(present) <= HeadCount THEN present
                ELSE CHOOSE S \in SUBSET present :
                        /\ Cardinality(S) = HeadCount
                        /\ \A a \in S : \A b \in present \ S : count(a) >= count(b)
    IN  [v \in kept |-> count(v)]

\* Series.mean() of a boolean column: the true cells over all cells
mean_of(flags) ==
    [num |-> Cardinality({i \in DOMAIN flags : flags[i]}), den |-> Len(flags)]

extract_cluster_patterns(rows, cluster) ==
    LET ids == unique(cluster)
        pattern(cluster_id) ==
            LET members == where([i \in DOMAIN rows |-> cluster[i] = cluster_id])
                cluster_data == [m \in DOMAIN members |-> rows[members[m]]]
            IN  [ id |-> cluster_id,
                  type |-> "behavioral",
                  size |-> Len(cluster_data),
                  percentage |-> [num |-> Len(cluster_data) * 100, den |-> Len(rows)],
                  common_levels |->
                      value_counts_head([m \in DOMAIN cluster_data |-> cluster_data[m].level]),
                  common_components |->
                      value_counts_head([m \in DOMAIN cluster_data |-> cluster_data[m].component]),
                  avg_message_length |->
                      [num |-> SeqSum([m \in DOMAIN cluster_data |-> cluster_data[m].message_length]),
                       den |-> Len(cluster_data)],
                  error_rate |->
                      mean_of([m \in DOMAIN cluster_data |-> cluster_data[m].has_error_keywords]),
                  auth_rate |->
                      mean_of([m \in DOMAIN cluster_data |-> cluster_data[m].has_auth_keywords]),
                  sample_messages |->
                      head([m \in DOMAIN cluster_data |-> cluster_data[m].message], HeadCount) ]
    IN  [k \in DOMAIN ids |-> pattern(ids[k])]

error_rate_at_least(error_rate) == error_rate.num * 10 >= error_rate.den

\* error_rate > 0.1
error_rate_high(error_rate) == error_rate.num * 10 > error_rate.den

\* f'{error_rate:.2%}': the rate in hundredths of a percent, rounded to the
\* nearest, a tie to the even one.
format_percent(rate) ==
    LET q == (rate.num * 10000) \div rate.den
        r == (rate.num * 10000) % rate.den
    IN  IF 2 * r > rate.den THEN q + 1
        ELSE IF 2 * r = rate.den THEN q + (q % 2)
        ELSE q

generate_predictions(rows) ==
    LET error_rate == mean_of([i \in DOMAIN rows |-> rows[i].has_error_keywords])
        temporal ==
            IF ~ \A i \in DOMAIN rows : isna(rows[i].timestamp)
            THEN <<[type |-> "temporal", rate |-> [num |-> 0, den |-> 1]]>>
            ELSE <<>>
        errors ==
            IF error_rate_high(error_rate)
            THEN <<[type |-> "error_prediction", rate |-> error_rate,
                    description |-> format_percent(error_rate)]>>
            ELSE <<>>
    IN  temporal \o errors

\* One ConfidenceUnits-th is the unit calculate_confidence's value is kept in.
ConfidenceUnits == 2 * DataReference * PatternReference

calculate_confidence_uncapped(n, p) ==
    IF n = 0 \/ p = 0 THEN 0
    ELSE Min(DataReference, n) * PatternReference + p * DataReference

\* calculate_confidence for len(df) = n and len(patterns) = p
calculate_confidence(n, p) ==
    IF n = 0 \/ p = 0 THEN 0
    ELSE LET data_quality == Min(DataReference, n) * PatternReference
             pattern_consistency == p * DataReference
         IN  Min(ConfidenceUnits, data_quality + pattern_consistency)

\* df.empty
df_never_empty(rows) == FALSE

df_empty(rows) == rows = <<>>

\* The feature vector of a row is decided by its message: the text features
\* and the four numeric columns are all computed from it.
Vectors(rows) == {rows[i].message : i \in DOMAIN rows}

\* KMeans.fit_predict raises ValueError when there are fewer samples than
\* clusters.
kmeans_raises(rows) == Len(rows) < n_clusters

\* learn_patterns(df). labels and outliers are what KMeans.fit_predict and
\* IsolationForest.fit_predict answer for each distinct feature vector.
\* TfidfVectorizer.fit_transform raises ValueError (empty vocabulary) when no
\* message has a term.
learn_patterns(rows, labels, outliers) ==
    IF df_empty(rows)
    THEN [ outcome |-> "returned", fitted |-> {},
           keys |-> {"patterns", "anomalies", "predictions", "confidence",
                     "samples_analyzed"},
           cluster |-> <<>>, is_anomaly |-> <<>>,
           patterns |-> <<>>, anomalies |-> <<>>, predictions |-> <<>>,
           confidence |-> 0, samples_analyzed |-> 0 ]
    ELSE IF \A i \in DOMAIN rows : ~has_terms(rows[i].message)
    THEN [ outcome |-> "raised", fitted |-> {}, keys |-> {},
           cluster |-> <<>>, is_anomaly |-> <<>>,
           error |-> "empty vocabulary" ]
    ELSE IF kmeans_raises(rows)
    THEN [ outcome |-> "raised", fitted |-> {"vectorizer", "scaler"}, keys |-> {},
           cluster |-> <<>>, is_anomaly |-> <<>>,
           error |-> "n_samples should be >= n_clusters" ]
    ELSE LET cluster == [i \in DOMAIN rows |-> labels[rows[i].message]]
             is_anomaly == [i \in DOMAIN rows |-> outliers[rows[i].message]]
             cluster_patterns == extract_cluster_patterns(rows, cluster)
             flagged == where(is_anomaly)
             anomaly_logs == [a \in DOMAIN flagged |-> rows[flagged[a]]]
         IN  [ outcome |-> "returned",
               fitted |-> {"vectorizer", "scaler", "kmeans", "isolation_forest"},
               keys |-> {"patterns", "anomalies", "predictions", "confidence",
                         "samples_analyzed", "model_version"},
               cluster |-> cluster, is_anomaly |-> is_anomaly,
               patterns |-> cluster_patterns,
               anomalies |-> head(anomaly_logs, AnomalyLimit),
               predictions |-> generate_predictions(rows),
               confidence |-> calculate_confidence(Len(rows), Len(cluster_patterns)),
               samples_analyzed |-> Len(rows) ]

\* The log entries the frames of the model are built from.
LearnEntries ==
    { [message |-> "login failed for user admin", level |-> "ERROR"],
      [message |-> "???", raw |-> TRUE] }

\* The frames of up to n rows: row i is extract_features of an entry.
Frames(n) ==
    UNION { { [i \in 1..k |-> extract_features(entries[i], 1, i - 1)] :
                entries \in [1..k -> LearnEntries] } : k \in 0..n }

LearnInit ==
    /\ frame = [rows |-> <<>>, cluster |-> <<>>, is_anomaly |-> <<>>]
    /\ fitted = {}
    /\ learned = [outcome |-> "none"]

\* One call of learn_patterns on a new learner.
LearnPatterns ==
    /\ learned.outcome = "none"
    /\ \E rows \in Frames(MaxBatch) :
       \E labels \in [Vectors(rows) -> 0..(n_clusters - 1)],
          outliers \in [Vectors(rows) -> BOOLEAN] :
          LET r == learn_patterns(rows, labels, outliers)
          IN  /\ learned' = r
              /\ fitted' = r.fitted
              /\ frame' = [rows |-> rows, cluster |-> r.cluster,
                           is_anomaly |-> r.is_anomaly]
    /\ UNCHANGED <<parseVars, detectorVars, confVars, featVars, mainVars>>

\* The entries the long frames are built from: one with a timestamp and an
\* error keyword, one with neither.
LargeEntries == <<groupdict("generic", LineGeneric), json_loads(LineJsonSyslog)>>

\* The long frames: the first j rows from one entry, the others from the other.
LargeFrames ==
    { [i \in 1..n |->
          extract_features(IF (i <= j) = first THEN LargeEntries[1] ELSE LargeEntries[2],
                           1, i - 1)] :
        n \in (MaxBatch + 1)..MaxLargeBatch, j \in 0..MaxLargeBatch, first \in BOOLEAN }

\* One call of learn_patterns on a new learner, on a long frame.
LearnPatternsLarge ==
    /\ learned.outcome = "none"
    /\ \E rows \in LargeFrames :
       \E labels \in [Vectors(rows) -> 0..(n_clusters - 1)],
          outliers \in [Vectors(rows) -> BOOLEAN] :
          LET r == learn_patterns(rows, labels, outliers)
          IN  /\ learned' = r
              /\ fitted' = r.fitted
              /\ frame' = [rows |-> rows, cluster |-> r.cluster,
                           is_anomaly |-> r.is_anomaly]
    /\ UNCHANGED <<parseVars, detectorVars, confVars, featVars, mainVars>>

LearnNext ==
    \/ LearnPatterns
    \/ LearnPatternsLarge

ConfInit ==
    /\ conf_in \in [n : 0..MaxConfBatch, p : 0..MaxConfPatterns]
    /\ conf_out = -1

ConfIdle ==
    /\ conf_in = [n |-> 0, p |-> 0]
    /\ conf_out = -1

\* One call of calculate_confidence.
CalculateConfidence ==
    /\ conf_out = -1
    /\ conf_out' = calculate_confidence(conf_in.n, conf_in.p)
    /\ UNCHANGED <<conf_in, parseVars, detectorVars, learnVars, mainVars, featVars>>

----------------------------------------------------------------------------
(* The entry points: main() of pattern_learning.py and of ml_models.py.    *)

MainInit ==
    /\ main_pc = "start"
    /\ entry = "none"
    /\ cause = "none"
    /\ stdout = [kind |-> "none"]
    /\ exit_status = -1

MainIdle ==
    /\ main_pc = "idle"
    /\ entry = "none"
    /\ cause = "none"
    /\ stdout = [kind |-> "none"]
    /\ exit_status = -1

\* The lines the sources of a run of the script yield.
MainLines == {LineJsonObject, LineJsonNumber}

\* The payload of the except clause of pattern_learning's main()
error_result(message) ==
    [ keys |-> {"success", "error", "traceback", "patterns", "anomalies",
                "predictions", "confidence", "samples_analyzed"},
      success |-> FALSE, error |-> message,
      patterns |-> <<>>, anomalies |-> <<>>, predictions |-> <<>>,
      confidence |-> 0, samples_analyzed |-> 0 ]

\* pattern_learning main() up to the call of parse_log_files. The stdin is
\* not JSON, is JSON but no object (input_data.get raises), is an object whose
\* log_files is missing or empty, one whose log_files cannot be iterated
\* (parse_log_files raises), or one with a list of sources.
PatternMainStart ==
    /\ main_pc = "start"
    /\ entry' = "pattern_learning"
    /\ \E input \in {"malformed", "not_object", "no_log_files",
                      "log_files_not_iterable", "log_files"} :
          IF input = "log_files"
          THEN /\ main_pc' = "parsing"
               /\ pc' = "for_file"
               /\ UNCHANGED <<cause, stdout, exit_status>>
          ELSE /\ main_pc' = "exited"
               /\ cause' = CASE input = "malformed" -> "malformed_stdin"
                             [] input = "not_object" -> "stdin_not_object"
                             [] input = "no_log_files" -> "no_log_files"
                             [] input = "log_files_not_iterable" -> "parse_failed"
               /\ stdout' = [kind |-> "json", payload |-> error_result(input)]
               /\ exit_status' = 1
               /\ UNCHANGED pc
    /\ UNCHANGED <<sources, line_num, all_logs, tried, stderr>>
    /\ UNCHANGED <<detectorVars, learnVars, confVars, featVars>>

MainReadLine ==
    /\ main_pc = "parsing"
    /\ ReadLineFrom(MainLines, MaxMainLines)

\* pattern_learning main() from learn_patterns(df) on: the result is printed
\* and main returns, or what learn_patterns raised reaches the except clause.
PatternMainLearn ==
    /\ main_pc = "parsing"
    /\ pc = "returned"
    /\ main_pc' = "exited"
    /\ \E labels \in [Vectors(all_logs) -> 0..(n_clusters - 1)],
          outliers \in [Vectors(all_logs) -> BOOLEAN] :
          LET r == learn_patterns(all_logs, labels, outliers)
          IN  /\ learned' = r
              /\ fitted' = r.fitted
              /\ frame' = [rows |-> all_logs, cluster |-> r.cluster,
                           is_anomaly |-> r.is_anomaly]
              /\ IF r.outcome = "returned"
                 THEN /\ stdout' = [kind |-> "json", payload |-> r]
                      /\ exit_status' = 0
                      /\ UNCHANGED cause
                 ELSE /\ stdout' = [kind |-> "json", payload |-> error_result(r.error)]
                      /\ exit_status' = 1
                      /\ cause' = "fit_failed"
    /\ UNCHANGED <<entry, parseVars, detectorVars, confVars, featVars>>

\* ml_models main().
MlMain ==
    /\ main_pc = "start"
    /\ main_pc' = "exited"
    /\ entry' = "ml_models"
    /\ exit_status' = 0
    /\ UNCHANGED <<parseVars, detectorVars, learnVars, confVars, featVars>>
    /\ \E command \in {"", "anomaly_train", "anomaly_predict", "forecast",
                        "nlp_analyze", "threat_intel", "bogus"},
          stdin \in {"malformed", "not_object", "object"} :
          IF command = ""
          THEN \* len(sys.argv) < 2: two lines of usage text, return
               /\ stdout' = [kind |-> "text", payload |-> [keys |-> {}]]
               /\ cause' = "missing_command"
          ELSE IF stdin = "malformed"
          THEN /\ stdout' = [kind |-> "json",
                             payload |-> [keys |-> {"error"}, error |-> "exception"]]
               /\ cause' = "malformed_stdin"
          ELSE IF command = "anomaly_predict"
          THEN /\ stdout' = [kind |-> "json",
                             payload |-> [keys |-> {"error"},
                                          error |-> "Model not trained. Run anomaly_train first."]]
               /\ cause' = "not_trained"
          ELSE IF command = "bogus"
          THEN /\ stdout' = [kind |-> "json",
                             payload |-> [keys |-> {"error"}, error |-> "Unknown command"]]
               /\ cause' = "unknown_command"
          ELSE IF stdin = "not_object"
          THEN \* input_data.get raises AttributeError
               /\ stdout' = [kind |-> "json",
                             payload |-> [keys |-> {"error"}, error |-> "exception"]]
               /\ cause' = "stdin_not_object"
          ELSE IF command = "anomaly_train"
          THEN IF ~SKLEARN_AVAILABLE
               THEN /\ stdout' = [kind |-> "json",
                                  payload |-> [keys |-> {"error"},
                                               error |-> "scikit-learn not available"]]
                    /\ cause' = "train_failed"
               ELSE \E c \in TrainChoices :
                       /\ stdout' = [kind |-> "json",
                                     payload |-> TrainResult(c.n, c.failure, c.flagged)]
                       /\ cause' = IF c.failure = NoFailure(TrainSteps)
                                   THEN "none" ELSE "train_failed"
          ELSE \* forecast, nlp_analyze, threat_intel: the collaborator's dict,
               \* an error or a success
               \E ok \in BOOLEAN :
                  /\ stdout' = [kind |-> "json",
                                payload |-> IF ok THEN [keys |-> {"status"}, status |-> "success"]
                                            ELSE [keys |-> {"error"}, error |-> "exception"]]
                  /\ cause' = IF ok THEN "none" ELSE "collaborator_failed"

MainNext ==
    \/ PatternMainStart
    \/ SkipMissing
    \/ OpenSource
    \/ MainReadLine
    \/ ReadError
    \/ EndOfFile
    \/ ReturnFrame
    \/ PatternMainLearn
    \/ MlMain

----------------------------------------------------------------------------
(* Specifications. *)

----------------------------------------------------------------------------
(* Feature extraction from one record, repeated, by either extractor.      *)

\* The records features are extracted from.
FeatureEntries ==
    { <<>>,
      [message |-> "login failed for user admin", level |-> "ERROR"],
      [message |-> "???", raw |-> TRUE],
      [message |-> "login failed", level |-> "WARN",
       timestamp |-> "2024-01-01 10:00:00"],
      [message |-> " db timeout", level |-> "ERROR",
       timestamp |-> "2024-01-01 10:00:00", metadata |-> [user |-> "admin"]] }

FeatIdle ==
    /\ now = 0
    /\ extracted = [by |-> "none", entry |-> <<>>, vectors |-> <<>>]

FeatInit ==
    /\ now = 0
    /\ extracted \in {[by |-> "none", entry |-> e, vectors |-> <<>>] : e \in FeatureEntries}

\* The wall clock advances by an hour.
Tick ==
    /\ now < MaxClock
    /\ now' = now + 1
    /\ UNCHANGED <<extracted, parseVars, detectorVars, learnVars, confVars, mainVars>>

\* LogAnomalyDetector.extract_features([entry])
ExtractDetectorFeatures ==
    /\ extracted.by \in {"none", "LogAnomalyDetector"}
    /\ Len(extracted.vectors) < MaxExtractions
    /\ extracted' = [extracted EXCEPT
                        !.by = "LogAnomalyDetector",
                        !.vectors = Append(@, detector_extract_features(<<extracted.entry>>, now)[1])]
    /\ feature_names' = IF feature_names = <<>> THEN FeatureNames ELSE feature_names
    /\ UNCHANGED <<SKLEARN_AVAILABLE, is_trained, scaler_fit, model_fit, calls,
                   trained_ok, train_failed, last, raised, trained_by>>
    /\ UNCHANGED <<now, parseVars, learnVars, confVars, mainVars>>

\* LogPatternLearner.extract_features(entry, source_file, line_num)
ExtractLearnerFeatures ==
    /\ extracted.by \in {"none", "LogPatternLearner"}
    /\ Len(extracted.vectors) < MaxExtractions
    /\ extracted' = [extracted EXCEPT
                        !.by = "LogPatternLearner",
                        !.vectors = Append(@, extract_features(extracted.entry, 1, 0))]
    /\ UNCHANGED <<now, parseVars, detectorVars, learnVars, confVars, mainVars>>

FeatNext ==
    \/ Tick
    \/ ExtractDetectorFeatures
    \/ ExtractLearnerFeatures

ParseIdle ==
    /\ pc = "idle"
    /\ sources = <<>>
    /\ line_num = 0
    /\ all_logs = <<>>
    /\ tried = <<>>
    /\ stderr = <<>>

\* parse_log_files called on a list of sources
InitParse ==
    ParseInit /\ DetectorInitWith(TRUE) /\ LearnInit /\ ConfIdle /\ MainIdle /\ FeatIdle

SpecParse == InitParse /\ [][ParseNext]_vars

\* train and predict calls on one LogAnomalyDetector
InitDetector ==
    ParseIdle /\ DetectorInit /\ LearnInit /\ ConfIdle /\ MainIdle /\ FeatIdle

SpecDetector == InitDetector /\ [][DetectorNext]_vars

\* learn_patterns called on a frame
InitLearn ==
    ParseIdle /\ DetectorInitWith(TRUE) /\ LearnInit /\ ConfIdle /\ MainIdle /\ FeatIdle

SpecLearn == InitLearn /\ [][LearnNext]_vars

\* calculate_confidence called on a batch size and a pattern count
InitConfidence ==
    ParseIdle /\ DetectorInitWith(TRUE) /\ LearnInit /\ ConfInit /\ MainIdle /\ FeatIdle

SpecConfidence == InitConfidence /\ [][CalculateConfidence]_vars

\* features extracted from one record more than once
InitFeatures ==
    ParseIdle /\ DetectorInitWith(TRUE) /\ LearnInit /\ ConfIdle /\ MainIdle /\ FeatInit

SpecFeatures == InitFeatures /\ [][FeatNext]_vars

\* one run of either script
InitMain ==
    ParseIdle /\ DetectorInit /\ LearnInit /\ ConfIdle /\ MainInit /\ FeatIdle

SpecMain == InitMain /\ [][MainNext]_vars

----------------------------------------------------------------------------
(* Properties of parse_log_files. *)

\* The positions in all_logs of the records made from line n of source f.
RecordsOf(f, n) ==
    {i \in DOMAIN all_logs :
        all_logs[i].source_file = f /\ all_logs[i].line_number = n}

\* A source that exists and that neither open() nor reading raised on.
Readable(f) == sources[f].exists /\ ~sources[f].io_error

\* The line a record was made from, stripped.
LineOf(r) == strip(sources[r.source_file].lines[r.line_number + 1])

\* The order the format rules are to be tried in.
RuleOrder == <<"syslog", "web", "generic">>

\* C1: when parse_log_files returns, every non-empty line of every readable
\* source, whatever its kind, has exactly one record in the result.
C1_OneRecordPerLine ==
    pc = "returned" =>
        \A f \in DOMAIN sources :
            Readable(f) =>
                \A k \in DOMAIN sources[f].lines :
                    strip(sources[f].lines[k]) # "" =>
                        Cardinality(RecordsOf(f, k - 1)) = 1

\* The parsers that are to be attempted on a stripped line, in order: the
\* structured parse, then, only if it fails, the rules up to the first match.
ExpectedAttempts(line) ==
    IF line = "" THEN <<>>
    ELSE IF json_kind(line) # "invalid" THEN <<"json">>
    ELSE LET matching == {j \in DOMAIN RuleOrder : re_search(RuleOrder[j], line)}
             stop == IF matching = {} THEN Len(RuleOrder)
                     ELSE CHOOSE j \in matching : \A m \in matching : j <= m
         IN  <<"json">> \o SubSeq(RuleOrder, 1, stop)

\* The line read last: the last line of the last source that has yielded one.
HasLastLine == \E f \in DOMAIN sources : sources[f].lines # <<>>

LastLine ==
    LET f == CHOOSE g \in DOMAIN sources :
                 /\ sources[g].lines # <<>>
                 /\ \A h \in DOMAIN sources : h > g => sources[h].lines = <<>>
    IN  sources[f].lines[Len(sources[f].lines)]

\* C2: the structured parse is attempted first on every line and the rules
\* only after it failed, in the order syslog, web, generic; a record's fields
\* are those of the JSON object, else of the first rule in that order that
\* matches the line, even when a later rule matches as well.
C2_FirstMatchWins ==
    /\ HasLastLine => tried = ExpectedAttempts(strip(LastLine))
    /\ \A i \in DOMAIN all_logs :
          LET r == all_logs[i]
              line == LineOf(r)
              matching == {j \in DOMAIN RuleOrder : re_search(RuleOrder[j], line)}
          IN  IF json_kind(line) # "invalid"
              THEN /\ json_kind(line) = "object"
                   /\ r = extract_features(json_loads(line), r.source_file, r.line_number)
              ELSE IF matching = {}
              THEN r.message = line /\ r.host = "" /\ r.ip_address = "" /\ r.timestamp = ""
              ELSE LET first == CHOOSE j \in matching : \A m \in matching : j <= m
                   IN  r = extract_features(groupdict(RuleOrder[first], line),
                                            r.source_file, r.line_number)

\* A line matching the syslog and the generic rule has given a record with the
\* syslog rule's fields, and a JSON object that the syslog rule matches too has
\* given a record with the object's fields.
C2_Witness ==
    /\ pc = "returned"
    /\ \E i \in DOMAIN all_logs :
          /\ LineOf(all_logs[i]) = LineSyslogGeneric
          /\ all_logs[i].host = "web01"
          /\ all_logs[i].level = "INFO"
    /\ \E i \in DOMAIN all_logs :
          /\ LineOf(all_logs[i]) = LineJsonSyslog
          /\ all_logs[i].host = ""
          /\ all_logs[i].message = "Jan 12 10:00:00 h p: x"

\* C3: a non-empty line that is not JSON and matches no format rule has one
\* record in the result, with the whole line as its message and raw = true.
C3_RawFallbackRecord ==
    pc = "returned" =>
        \A f \in DOMAIN sources :
            \A k \in DOMAIN sources[f].lines :
                LET line == strip(sources[f].lines[k])
                IN  ( /\ line # ""
                      /\ json_kind(line) = "invalid"
                      /\ \A j \in DOMAIN RuleOrder : ~re_search(RuleOrder[j], line) )
                    => /\ Cardinality(RecordsOf(f, k - 1)) = 1
                       /\ \A i \in RecordsOf(f, k - 1) :
                             /\ all_logs[i].message = line
                             /\ "raw" \in DOMAIN all_logs[i]
                             /\ all_logs[i].raw = TRUE

\* C4: when parse_log_files returns, a source that is missing or that failed
\* while being opened, read or decoded has no record in the result, and every
\* source of the list has been taken.
C4_FailedSourceContributesNothing ==
    pc = "returned" =>
        /\ \A f \in DOMAIN sources :
              (~sources[f].exists \/ sources[f].io_error) =>
                  ~ \E i \in DOMAIN all_logs : all_logs[i].source_file = f
        /\ \A f \in DOMAIN sources : sources[f].status \in {"missing", "failed", "done"}

----------------------------------------------------------------------------
(* Properties of LogAnomalyDetector. *)

\* C5: a predict call made while no train call on the instance has returned
\* success (none was made, or all failed) returns the not-trained error and
\* no verdicts.
C5_PredictBeforeTraining ==
    (last.op = "predict" /\ trained_ok = 0) =>
        /\ last.keys = {"error"}
        /\ last.error = "Models not available or not trained"

\* predict was rejected after a train call that raised part-way, with a
\* scaler already fitted.
C5_Witness ==
    /\ last.op = "predict"
    /\ trained_ok = 0
    /\ train_failed > 0
    /\ SKLEARN_AVAILABLE
    /\ \E name \in Models : scaler_fit[name] > 0
    /\ last.error = "Models not available or not trained"

\* C6: in a predict result the ensemble prediction of record i is -1 exactly
\* when the detectors whose own prediction for i is -1 number at least half
\* of the detectors, a tie included, and is 1 otherwise.
C6_EnsembleVote ==
    (last.op = "predict" /\ "results" \in last.keys) =>
        \A i \in 1..last.total_samples :
            LET flagging == {name \in Models : last.results[name].predictions[i] = -1}
            IN  last.ensemble.predictions[i] =
                    (IF 2 * Cardinality(flagging) >= Cardinality(Models) THEN -1 ELSE 1)

\* With two detectors, a record flagged by exactly one of them is an
\* ensemble anomaly, and one flagged by none is not.
C6_Witness ==
    /\ last.op = "predict"
    /\ "results" \in last.keys
    /\ \E i \in 1..last.total_samples :
          /\ last.results["isolation_forest"].predictions[i] = -1
          /\ last.results["one_class_svm"].predictions[i] = 1
          /\ last.ensemble.predictions[i] = -1
    /\ \E i \in 1..last.total_samples :
          /\ \A name \in Models : last.results[name].predictions[i] = 1
          /\ last.ensemble.predictions[i] = 1

\* C11: a train or predict call in which feature extraction or a step of one
\* detector raised has returned (nothing escaped) a result that carries an
\* error message and nothing else, no results of the detectors that were
\* done before the failure; and a train call has fitted no detector after
\* the one that failed.
C11_FailureAbortsCall ==
    (last.op \in {"train", "predict"} /\ raised # NotRaised) =>
        /\ last.outcome = "returned"
        /\ last.keys = {"error"}
        /\ DOMAIN last = {"op", "outcome", "keys", "error"}
        /\ last.op = "train" =>
              \A d, e \in DOMAIN ModelNames :
                  (raised.model = ModelNames[d] /\ e > d) =>
                      /\ scaler_fit[ModelNames[e]] # calls
                      /\ model_fit[ModelNames[e]] # calls

\* A train call whose second detector raised while being fitted, the first
\* detector done, has returned the error alone.
C11_Witness ==
    /\ last.op = "train"
    /\ raised = [step |-> "fit", model |-> "one_class_svm"]
    /\ model_fit["isolation_forest"] = calls
    /\ last.keys = {"error"}

\* C17: in a predict result each detector's confidence for a record is the
\* record's raw score over the detector's largest absolute score of the
\* batch, and 0 when that largest absolute score is 0.
C17_ConfidenceScores ==
    (last.op = "predict" /\ "results" \in last.keys) =>
        \A name \in Models : \A i \in 1..last.total_samples :
            LET r == last.results[name]
                top == SeqMax([j \in 1..last.total_samples |-> Abs(r.anomaly_scores[j])])
                c == r.confidence_scores[i]
            IN  /\ c.den # 0
                /\ IF top = 0 THEN c.num = 0
                   ELSE c.num * top = r.anomaly_scores[i] * c.den

\* C18: whenever is_trained holds, every detector and every scaler holds the
\* parameters fitted by the latest train call that returned success.
C18_FittedBySameTrain ==
    is_trained =>
        \A name \in Models :
            /\ scaler_fit[name] = trained_by
            /\ model_fit[name] = trained_by

----------------------------------------------------------------------------
(* Properties of learn_patterns and calculate_confidence. *)

\* C7: learn_patterns on a non-empty frame of N rows returns a result, having
\* given each of the N rows one cluster id in 0..k-1.
C7_ClusterIdPerRecord ==
    (learned.outcome # "none" /\ frame.rows # <<>>) =>
        /\ learned.outcome = "returned"
        /\ Len(frame.cluster) = Len(frame.rows)
        /\ \A i \in DOMAIN frame.cluster : frame.cluster[i] \in 0..(n_clusters - 1)

\* C8: learn_patterns on an empty frame raises nothing, fits no estimator and
\* returns exactly patterns [], anomalies [], predictions [], confidence 0
\* and samples_analyzed 0.
C8_EmptyBatchResult ==
    (learned.outcome # "none" /\ frame.rows = <<>>) =>
        /\ learned.outcome = "returned"
        /\ fitted = {}
        /\ learned.keys = {"patterns", "anomalies", "predictions", "confidence",
                           "samples_analyzed"}
        /\ learned.patterns = <<>>
        /\ learned.anomalies = <<>>
        /\ learned.predictions = <<>>
        /\ learned.confidence = 0
        /\ learned.samples_analyzed = 0

\* learn_patterns has been called on the empty frame and has returned.
C8_Witness ==
    /\ learned.outcome = "returned"
    /\ frame.rows = <<>>
    /\ "model_version" \notin learned.keys

\* C9: the value calculate_confidence returns lies in [0, 1], and no smaller
\* batch with the same pattern count gets a larger value.
C9_ConfidenceRangeMonotone ==
    conf_out # -1 =>
        /\ 0 <= conf_out
        /\ conf_out <= ConfidenceUnits
        /\ \A m \in 0..conf_in.n :
              calculate_confidence(m, conf_in.p) <= conf_out

\* calculate_confidence has returned 1.0 for a batch above the data reference
\* whose pattern term alone exceeds 1.
C9_Witness ==
    /\ conf_out = ConfidenceUnits
    /\ conf_in.n > DataReference
    /\ conf_in.p > 2 * PatternReference

\* C13: calculate_confidence returns 0 for an empty batch or no pattern, and
\* otherwise the average of min(1, N/1000) and min(1, P/10), each term capped
\* on its own.
C13_ConfidenceReference ==
    conf_out # -1 =>
        conf_out =
            (IF conf_in.n = 0 \/ conf_in.p = 0 THEN 0
             ELSE (IF conf_in.n < DataReference THEN conf_in.n ELSE DataReference)
                      * PatternReference
                  + (IF conf_in.p < PatternReference THEN conf_in.p ELSE PatternReference)
                      * DataReference)

\* The result of a call of learn_patterns that returned on a non-empty frame.
Returned == learned.outcome = "returned" /\ frame.rows # <<>>

\* The findings of a type in the predictions of the result.
Findings(type) ==
    {k \in DOMAIN learned.predictions : learned.predictions[k].type = type}

\* The rows of the frame that carry the error-keyword flag.
ErrorRows == {i \in DOMAIN frame.rows : frame.rows[i].has_error_keywords}

\* C14: the result has the error-rate finding exactly when more than a tenth
\* of the frame's rows carry the error-keyword flag, and the finding's text
\* is that fraction as a percentage, to two decimals.
C14_ErrorRateFinding ==
    Returned =>
        LET k == Cardinality(ErrorRows)
            n == Len(frame.rows)
        IN  /\ (Findings("error_prediction") # {}) <=> (10 * k > n)
            /\ Cardinality(Findings("error_prediction")) <= 1
            /\ \A f \in Findings("error_prediction") :
                  \* hundredths of a percent: within a half of 10000 k / n
                  LET shown == learned.predictions[f].description
                  IN  /\ 2 * shown * n <= 20000 * k + n
                      /\ 2 * shown * n >= 20000 * k - n

\* One row in ten carries the flag and the result has no error-rate finding;
\* the result of another call, with two rows in eleven, would have it.
C14_Witness ==
    /\ Returned
    /\ Len(frame.rows) = 10
    /\ Cardinality(ErrorRows) = 1
    /\ Findings("error_prediction") = {}

\* C15: the result has the temporal finding exactly when some row of the
\* frame has a timestamp; a frame whose rows were all made from lines
\* without a timestamp gets none.
C15_TemporalFinding ==
    Returned =>
        ( (Findings("temporal") # {})
            <=> (\E i \in DOMAIN frame.rows : frame.rows[i].timestamp # "") )

\* The k-th smallest member of a set of positions.
Nth(S, k) == CHOOSE i \in S : Cardinality({j \in S : j < i}) = k - 1

\* C16: in the result for a frame of N rows every listed cluster has a
\* member, no cluster is listed twice, the sizes sum to N and the percentages
\* to 100, the sample messages of a cluster are the messages of its first
\* members in the frame's order, three at most, and the anomalies are the
\* first flagged rows in the frame's order, ten at most.
C16_PatternListInvariants ==
    Returned =>
        LET n == Len(frame.rows)
            listed == learned.patterns
            members(k) == {i \in DOMAIN frame.rows : frame.cluster[i] = listed[k].id}
            flagged == {i \in DOMAIN frame.rows : frame.is_anomaly[i]}
        IN  /\ \A k \in DOMAIN listed :
                  /\ listed[k].size >= 1
                  /\ listed[k].size = Cardinality(members(k))
                  /\ listed[k].percentage.num * n = 100 * listed[k].size * listed[k].percentage.den
                  /\ Len(listed[k].sample_messages) =
                        (IF listed[k].size < 3 THEN listed[k].size ELSE 3)
                  /\ \A m \in DOMAIN listed[k].sample_messages :
                        listed[k].sample_messages[m] = frame.rows[Nth(members(k), m)].message
            /\ \A k, l \in DOMAIN listed : listed[k].id = listed[l].id => k = l
            /\ SeqSum([k \in DOMAIN listed |-> listed[k].size]) = n
            /\ Len(learned.anomalies) =
                  (IF Cardinality(flagged) < 10 THEN Cardinality(flagged) ELSE 10)
            /\ \A a \in DOMAIN learned.anomalies :
                  learned.anomalies[a] = frame.rows[Nth(flagged, a)]

\* A frame with eleven flagged rows ahead of an unflagged one, in two
\* clusters of more than three rows and of one: ten anomalies are returned.
C16_Witness ==
    /\ Returned
    /\ Cardinality({i \in DOMAIN frame.rows : frame.is_anomaly[i]}) > 10
    /\ \E i \in DOMAIN frame.rows : ~frame.is_anomaly[i]
    /\ Len(learned.anomalies) = 10
    /\ Len(learned.patterns) = 2
    /\ \E k \in DOMAIN learned.patterns : learned.patterns[k].size > 3

----------------------------------------------------------------------------
(* Properties of feature extraction. *)

\* C12: the feature vectors either extractor makes of one unchanged record
\* are all the same, whether or not the record has a timestamp or any other
\* optional field.
C12_ExtractionIdempotent ==
    \A i, j \in DOMAIN extracted.vectors :
        extracted.vectors[i] = extracted.vectors[j]

----------------------------------------------------------------------------
(* Properties of the entry points. *)

\* C10: a run of either script that failed has printed a structured result;
\* a failed run of pattern_learning has printed success = false with empty
\* patterns, anomalies and predictions, confidence 0 and samples_analyzed 0,
\* and has exited with a non-zero status.
C10_FailureResultWellFormed ==
    (main_pc = "exited" /\ cause # "none") =>
        /\ stdout.kind = "json"
        /\ stdout.payload.keys # {}
        /\ entry = "pattern_learning" =>
              /\ "success" \in stdout.payload.keys
              /\ stdout.payload.success = FALSE
              /\ stdout.payload.patterns = <<>>
              /\ stdout.payload.anomalies = <<>>
              /\ stdout.payload.predictions = <<>>
              /\ stdout.payload.confidence = 0
              /\ stdout.payload.samples_analyzed = 0
              /\ exit_status # 0

====
